---- MODULE Spec2Model ----
(***************************************************************************)
(* Quality-filter engine of coregister_for_coastseg_arosics.               *)
(*                                                                         *)
(* The persisted result file (records per file, grouped by satellite or    *)
(* flat) is loaded into a FilterTable by coreg_dict_to_dataframe and the   *)
(* filter stages of arosics_filter.py / filters.py narrow the              *)
(* filter_passed column.                                                   *)
(*                                                                         *)
(* Python / pandas values are tagged records:                              *)
(*   [t |-> "none"]            None (JSON null)                            *)
(*   [t |-> "nan"]             float NaN                                   *)
(*   [t |-> "num", v |-> n]    a number                                    *)
(*   [t |-> "bool", v |-> b]   a bool                                      *)
(* A z-score is [t |-> "nan"], [t |-> "inf"] or                            *)
(* [t |-> "fin", num |-> a, den |-> b], the exact value of z^2 = a / b.    *)
(* A z threshold is [p |-> a, q |-> b], the number a / b with b > 0.        *)
(***************************************************************************)
EXTENDS Integers, Sequences, FiniteSets, TLC

VARIABLES results, df, columns, prev, last

\* dict_data: the mapping read from the result file, as it is in memory
\* (whether it has the settings key, and the field names of each record)
VARIABLE dict_data

\* batch:  the run of coregister_files over a list of targets
\* info:   the engine object handed to make_coreg_info and the record built
\* store:  the results mapping of the satellite loop and the file written
\* cond:   the files and the position of a raster conditioning call
\* triage: the files process_failed_coregistrations works on
VARIABLES batch, info, store, cond, triage

\* prop: the filtered table, the session and coregistered directories and
\*       the calls of the shift propagation made on them
VARIABLE prop

filterVars == <<results, df, columns, prev, last, dict_data>>

vars == <<results, df, columns, prev, last, dict_data, batch, info, store,
          cond, triage, prop>>

\* Value of a component that takes no part in a specification.
Idle == [pc |-> "idle"]

OthersIdle ==
    /\ batch = Idle
    /\ info = Idle
    /\ store = Idle
    /\ cond = Idle
    /\ triage = Idle
    /\ prop = Idle

FilterIdle ==
    /\ results = Idle
    /\ df = <<>>
    /\ columns = {}
    /\ prev = <<>>
    /\ last = Idle
    /\ dict_data = Idle

(***************************************************************************)
(* Bounds of the model.                                                    *)
(***************************************************************************)
MaxRows == 2

MaxZRows == 3

(***************************************************************************)
(* Python values.                                                          *)
(***************************************************************************)
None == [t |-> "none"]

NaN == [t |-> "nan"]

Num(n) == [t |-> "num", v |-> n]

Bool(b) == [t |-> "bool", v |-> b]

\* pd.isna / Series.isnull / pd.notna: None and NaN are the missing values.
isna(x) == x.t \in {"none", "nan"}

\* `x is None`: identity with the None object; a float NaN is not None.
IsNoneObject(x) == x.t = "none"

\* Python `x < T` for a number, a bool (False is 0, True is 1) or a NaN
\* (every ordered comparison with NaN is False).
PyLess(x, T) ==
    CASE x.t = "num" -> x.v < T
      [] x.t = "bool" -> (IF x.v THEN 1 ELSE 0) < T
      [] OTHER -> FALSE

\* Element of the vectorised `column > T`: a missing value compares False.
SeriesGt(x, T) ==
    CASE x.t = "num" -> x.v > T
      [] x.t = "bool" -> (IF x.v THEN 1 ELSE 0) > T
      [] OTHER -> FALSE

\* Truth value of a Python object, as tested by `if threshold:`.
Truthy(x) ==
    CASE x.t = "num" -> x.v # 0
      [] x.t = "bool" -> x.v
      [] x.t = "nan" -> TRUE
      [] x.t = "str" -> x.v # ""
      [] OTHER -> FALSE

\* Sum of the values f[i] for i in I.
RECURSIVE SumOver(_, _)
SumOver(f, I) ==
    IF I = {} THEN 0
    ELSE LET i == CHOOSE j \in I : TRUE
         IN f[i] + SumOver(f, I \ {i})

(***************************************************************************)
(* Loading the persisted result set into the FilterTable.                  *)
(***************************************************************************)
\* dtype inference of pd.DataFrame(list of dicts): a column whose non-null
\* values are all plain numbers becomes float64 and its None cells become
\* NaN; a column holding a bool, or nothing but None, stays object dtype
\* and keeps None.
NumericColumn(recs, col) ==
    /\ \A i \in 1..Len(recs) : recs[i][col].t \in {"num", "none", "nan"}
    /\ \E i \in 1..Len(recs) : recs[i][col].t \in {"num", "nan"}

InferCell(recs, col, x) ==
    IF x.t = "none" /\ NumericColumn(recs, col) THEN NaN ELSE x

\* One table row per record; filter_passed and z_score are the columns the
\* stages add later (see columns).
NewRow(rec) ==
    [filename |-> rec.filename,
     satellite |-> rec.satellite,
     coregistered_ssim |-> rec.coregistered_ssim,
     shift_x |-> rec.shift_x,
     shift_y |-> rec.shift_y,
     shift_x_meters |-> rec.shift_x_meters,
     shift_y_meters |-> rec.shift_y_meters,
     shift_reliability |-> rec.shift_reliability,
     window_size |-> rec.window_size,
     filter_passed |-> TRUE,
     z_score |-> NaN]

\* Grouped result set: one DataFrame row per (satellite, filename), columns
\* typed by inference over every row of every satellite.
create_dataframe_with_satellites(recs) ==
    [i \in 1..Len(recs) |->
        [NewRow(recs[i]) EXCEPT
            !.coregistered_ssim = InferCell(recs, "coregistered_ssim", @),
            !.shift_x = InferCell(recs, "shift_x", @),
            !.shift_y = InferCell(recs, "shift_y", @),
            !.shift_x_meters = InferCell(recs, "shift_x_meters", @),
            !.shift_y_meters = InferCell(recs, "shift_y_meters", @),
            !.shift_reliability = InferCell(recs, "shift_reliability", @)]]

\* Flat result set: create_dataframe_with_satellites raises (a record field
\* is not a mapping), and pd.DataFrame(dict).transpose() gives object
\* columns whose cells are the JSON values unchanged.
coreg_dict_to_dataframe(res) ==
    IF res.grouped
    THEN create_dataframe_with_satellites(res.records)
    ELSE [i \in 1..Len(res.records) |-> NewRow(res.records[i])]

\* `if 'filter_passed' not in df.columns: df['filter_passed'] = True`
\* The fields make_coreg_info and coregister_file give a record.
RecordFields ==
    {"original_ssim", "coregistered_ssim", "change_ssim", "shift_x",
     "shift_y", "shift_x_meters", "shift_y_meters", "shift_reliability",
     "window_size", "success", "CRS", "CRS_converted"}

\* json.load of the result file: the settings key and the records.
json_load(res) ==
    [has_settings |-> TRUE,
     fields |-> [i \in 1..Len(res.records) |-> RecordFields]]

\* What coreg_dict_to_dataframe leaves of its argument: settings is
\* popped, and create_dataframe_with_satellites writes filename and
\* satellite into every record of a grouped mapping (on a flat mapping it
\* raises at the first item assignment, before changing anything).
dict_data_after(res, d) ==
    [has_settings |-> FALSE,
     fields |-> [i \in 1..Len(d.fields) |->
                    IF res.grouped
                    THEN d.fields[i] \cup {"filename", "satellite"}
                    ELSE d.fields[i]]]

EnsureFilterPassed(d, cols) ==
    IF "filter_passed" \in cols THEN d
    ELSE [i \in 1..Len(d) |-> [d[i] EXCEPT !.filter_passed = TRUE]]

(***************************************************************************)
(* The row-wise stages of arosics_filter.py.                               *)
(***************************************************************************)
filter_out_nones_readmit(d, cols) ==
    LET e == EnsureFilterPassed(d, cols)
    IN [i \in 1..Len(e) |->
          [e[i] EXCEPT !.filter_passed =
              IF IsNoneObject(e[i].coregistered_ssim) THEN FALSE ELSE TRUE]]

filter_out_nones_skipfirst(d, cols) ==
    LET e == EnsureFilterPassed(d, cols)
    IN [i \in 1..Len(e) |->
          [e[i] EXCEPT !.filter_passed =
              IF i > 1 /\ IsNoneObject(e[i].coregistered_ssim) THEN FALSE
              ELSE e[i].filter_passed]]

filter_out_nones(d, cols) ==
    LET e == EnsureFilterPassed(d, cols)
    IN [i \in 1..Len(e) |->
          [e[i] EXCEPT !.filter_passed =
              IF IsNoneObject(e[i].coregistered_ssim) THEN FALSE
              ELSE e[i].filter_passed]]

filter_by_shift_reliability_assign(d, cols, threshold) ==
    LET e == EnsureFilterPassed(d, cols)
    IN [i \in 1..Len(e) |->
          [e[i] EXCEPT !.filter_passed =
              ~(IsNoneObject(e[i].shift_reliability)
                \/ PyLess(e[i].shift_reliability, threshold))]]

filter_by_shift_reliability(d, cols, threshold) ==
    LET e == EnsureFilterPassed(d, cols)
    IN [i \in 1..Len(e) |->
          [e[i] EXCEPT !.filter_passed =
              IF IsNoneObject(e[i].shift_reliability)
                 \/ PyLess(e[i].shift_reliability, threshold)
              THEN FALSE
              ELSE e[i].filter_passed]]

filter_by_max_shift_meters(d, cols, threshold) ==
    LET e == EnsureFilterPassed(d, cols)
    IN [i \in 1..Len(e) |->
          [e[i] EXCEPT !.filter_passed =
              IF \/ SeriesGt(e[i].shift_x_meters, threshold)
                 \/ isna(e[i].shift_x_meters)
                 \/ SeriesGt(e[i].shift_y_meters, threshold)
                 \/ isna(e[i].shift_y_meters)
              THEN FALSE
              ELSE e[i].filter_passed]]

filter_window_size_and(d, cols, threshold) ==
    LET e == EnsureFilterPassed(d, cols)
    IN [i \in 1..Len(e) |->
          [e[i] EXCEPT !.filter_passed =
              IF /\ e[i].window_size[1] < threshold
                 /\ e[i].window_size[2] < threshold
              THEN FALSE
              ELSE e[i].filter_passed]]

filter_window_size(d, cols, threshold) ==
    LET e == EnsureFilterPassed(d, cols)
    IN [i \in 1..Len(e) |->
          [e[i] EXCEPT !.filter_passed =
              IF \/ e[i].window_size[1] < threshold
                 \/ e[i].window_size[2] < threshold
              THEN FALSE
              ELSE e[i].filter_passed]]

(***************************************************************************)
(* The z-score stage of filters.py.                                        *)
(***************************************************************************)
\* (value - mu) / sigma squared, exactly: with n population values of sum S
\* and sum of squares Q, mu = S / n and sigma^2 = (n Q - S^2) / n^2 (np.std,
\* ddof = 0), so the square is (n x - S)^2 / (n Q - S^2).  A zero sigma is a
\* float division by zero: 0 / 0 is NaN, anything else an infinity.
AxisZSquared(x, n, S, Q) ==
    LET a == (n * x - S) * (n * x - S)
        b == n * Q - S * S
    IN IF b = 0
       THEN (IF a = 0 THEN [t |-> "nan"] ELSE [t |-> "inf"])
       ELSE [t |-> "fin", num |-> a, den |-> b]

\* np.sqrt(z_x**2 + z_y**2)
CombineZ(zx, zy) ==
    IF zx.t = "nan" \/ zy.t = "nan" THEN [t |-> "nan"]
    ELSE IF zx.t = "inf" \/ zy.t = "inf" THEN [t |-> "inf"]
    ELSE [t |-> "fin", num |-> zx.num * zy.den + zy.num * zx.den,
                       den |-> zx.den * zy.den]

\* df_clean: rows with both shifts present, and still passed when
\* filter_passed_only.
CleanRows_all(d, filter_passed_only) ==
    {i \in 1..Len(d) : ~isna(d[i].shift_y) /\ ~isna(d[i].shift_x)}

CleanRows(d, filter_passed_only) ==
    {i \in 1..Len(d) :
        /\ ~isna(d[i].shift_y)
        /\ ~isna(d[i].shift_x)
        /\ (filter_passed_only => d[i].filter_passed)}

\* The rows calculate_z_score computes a score for; every other row gets
\* NaN (or None, which the resulting column also reports as missing).
ZEligible(row, filter_passed_only) ==
    IF filter_passed_only
    THEN row.filter_passed /\ ~isna(row.shift_x) /\ ~isna(row.shift_y)
    ELSE ~isna(row.shift_x) /\ ~isna(row.shift_y)

calculate_zscore(d, filter_passed_only) ==
    LET I == CleanRows(d, filter_passed_only)
        n == Cardinality(I)
        x_shifts == [i \in I |-> d[i].shift_x.v]
        y_shifts == [i \in I |-> d[i].shift_y.v]
        Sx == SumOver(x_shifts, I)
        Sy == SumOver(y_shifts, I)
        Qx == SumOver([i \in I |-> x_shifts[i] * x_shifts[i]], I)
        Qy == SumOver([i \in I |-> y_shifts[i] * y_shifts[i]], I)
    IN [i \in 1..Len(d) |->
          [d[i] EXCEPT !.z_score =
              IF ZEligible(d[i], filter_passed_only)
              THEN CombineZ(AxisZSquared(d[i].shift_x.v, n, Sx, Qx),
                            AxisZSquared(d[i].shift_y.v, n, Sy, Qy))
              ELSE [t |-> "nan"]]]

\* z > p / q for a z-score z >= 0 and a threshold p / q >= 0.
ZGreater(z, zt) ==
    CASE z.t = "fin" -> zt.q * zt.q * z.num > zt.p * zt.p * z.den
      [] z.t = "inf" -> TRUE
      [] OTHER -> FALSE

\* The row selector of filter_zscores,
\*     pd.isna(df['z_score']) | df['z_score'] > z_threshold
\* parses as (pd.isna(z) | z) > z_threshold: the bool column isna(z) is
\* or-ed with z cast to bool (NaN -> False, any other non-zero -> True) and
\* the resulting bool (0 or 1) is compared with the threshold.
ZMask(z, zt) ==
    LET b == (z.t = "nan") \/ (z.t = "inf") \/ (z.t = "fin" /\ z.num # 0)
    IN zt.q * (IF b THEN 1 ELSE 0) > zt.p

filter_zscores(d, cols, z_threshold, filter_passed_only) ==
    LET e == calculate_zscore(EnsureFilterPassed(d, cols), filter_passed_only)
    IN [i \in 1..Len(e) |->
          [e[i] EXCEPT !.filter_passed =
              IF ZMask(e[i].z_score, z_threshold) THEN FALSE
              ELSE e[i].filter_passed]]

(***************************************************************************)
(* filter_coregistration: the whole chain, driven by the filter settings.  *)
(***************************************************************************)
Absent == [t |-> "absent"]

Rat(a, b) == [t |-> "rat", p |-> a, q |-> b]

\* dict.get(key, default) on the filter settings.
Get(filter_settings, key, default) ==
    IF filter_settings[key].t = "absent" THEN default
    ELSE filter_settings[key]

DefaultZThreshold == Rat(2, 1)

filter_coregistration(res, filter_settings) ==
    LET shift_reliability_threshold ==
            Get(filter_settings, "shift_reliability", None)
        window_size_threshold == Get(filter_settings, "window_size", None)
        max_shift_meters_threshold ==
            Get(filter_settings, "max_shift_meters", None)
        filter_z_score == Get(filter_settings, "filter_z_score", Bool(FALSE))
        z_threshold ==
            Get(filter_settings, "z_score_threshold", DefaultZThreshold)
        filter_z_score_filter_passed_only ==
            Get(filter_settings, "filter_z_score_filter_passed_only",
                Bool(FALSE))
        cols == {"filter_passed"}
        d0 == coreg_dict_to_dataframe(res)
        d1 == filter_out_nones(d0, {})
        d2 == IF Truthy(shift_reliability_threshold)
              THEN filter_by_shift_reliability(d1, cols,
                                               shift_reliability_threshold.v)
              ELSE d1
        d3 == IF Truthy(window_size_threshold)
              THEN filter_window_size(d2, cols, window_size_threshold.v)
              ELSE d2
        d4 == IF Truthy(max_shift_meters_threshold)
              THEN filter_by_max_shift_meters(d3, cols,
                                              max_shift_meters_threshold.v)
              ELSE d3
    IN IF Truthy(filter_z_score)
       THEN filter_zscores(d4, cols, z_threshold,
                           Truthy(filter_z_score_filter_passed_only))
       ELSE d4

(***************************************************************************)
(* Inputs: the records of the persisted result file.                       *)
(***************************************************************************)
Record(ssim, sx, sy, sxm, sym, rel, win) ==
    [coregistered_ssim |-> ssim, shift_x |-> sx, shift_y |-> sy,
     shift_x_meters |-> sxm, shift_y_meters |-> sym,
     shift_reliability |-> rel, window_size |-> win]

GoodRecord ==
    Record(Num(1), Num(0), Num(0), Num(0), Num(0), Num(80), <<60, 60>>)

\* Records for the stage chain: each deviates from a record every stage
\* accepts in the field one stage reads; the last fails every stage.
ChainRecords ==
    {GoodRecord,
     [GoodRecord EXCEPT !.coregistered_ssim = None],
     [GoodRecord EXCEPT !.shift_reliability = None],
     [GoodRecord EXCEPT !.shift_reliability = Bool(FALSE)],
     [GoodRecord EXCEPT !.shift_reliability = Num(20)],
     [GoodRecord EXCEPT !.window_size = <<40, 60>>],
     [GoodRecord EXCEPT !.window_size = <<60, 40>>],
     [GoodRecord EXCEPT !.shift_x_meters = Num(300)],
     [GoodRecord EXCEPT !.shift_x_meters = Num(-300)],
     [GoodRecord EXCEPT !.shift_y_meters = None],
     [GoodRecord EXCEPT !.shift_x = Num(3), !.shift_y = Num(1)],
     Record(None, None, Num(0), Num(300), Num(0), Num(20), <<40, 40>>)}

\* Records for the z-score stage: every combination of the shifts, for a
\* record the null-similarity stage accepts and one it rejects.
ZRecords ==
    {[GoodRecord EXCEPT !.coregistered_ssim = ssim,
                        !.shift_x = sx, !.shift_y = sy] :
        ssim \in {None, Num(1)},
        sx \in {Num(0), Num(100), None},
        sy \in {Num(0), Num(1)}}

\* The table of five rows with shift_x = [0, 0, 0, 0, 100] and shift_y = 0.
FiveRowRecords ==
    [i \in 1..5 |->
        [GoodRecord EXCEPT !.shift_x = IF i = 5 THEN Num(100) ELSE Num(0)]]

\* The record of file i as stored in the result set: keyed by its filename
\* and, in a grouped result set, by its satellite.
Stored(rec, i, grouped) ==
    [filename |-> i,
     satellite |-> IF grouped THEN (IF i = 1 THEN "L8" ELSE "L9") ELSE "",
     coregistered_ssim |-> rec.coregistered_ssim,
     shift_x |-> rec.shift_x,
     shift_y |-> rec.shift_y,
     shift_x_meters |-> rec.shift_x_meters,
     shift_y_meters |-> rec.shift_y_meters,
     shift_reliability |-> rec.shift_reliability,
     window_size |-> rec.window_size]

ResultSet(recs, grouped) ==
    [grouped |-> grouped,
     records |-> [i \in 1..Len(recs) |-> Stored(recs[i], i, grouped)]]

ResultSets(Records, maxRows, Modes) ==
    UNION {{ResultSet(recs, g) : recs \in [1..n -> Records], g \in Modes} :
           n \in 1..maxRows}

FilterPassed(d) == [i \in 1..Len(d) |-> d[i].filter_passed]

NoStage == [op |-> "load", T |-> 0, zt |-> Rat(0, 1), po |-> FALSE,
            settings |-> <<>>]

\* Records for filter_coregistration.
CoregRecords ==
    {GoodRecord,
     [GoodRecord EXCEPT !.coregistered_ssim = None],
     [GoodRecord EXCEPT !.shift_reliability = None],
     [GoodRecord EXCEPT !.shift_reliability = Num(20)],
     [GoodRecord EXCEPT !.window_size = <<40, 60>>],
     [GoodRecord EXCEPT !.shift_x_meters = Num(300)],
     [GoodRecord EXCEPT !.shift_y_meters = None],
     [GoodRecord EXCEPT !.shift_x = Num(3), !.shift_y = Num(1)]}

ReliabilityThresholds == {40}

WindowThresholds == {50}

MaxShiftThresholds == {250}

ZThresholds == {Rat(0, 1), Rat(1, 2), Rat(1, 1), Rat(2, 1)}

FilterSettings ==
    [shift_reliability : {Absent, Num(0), Num(40)},
     window_size : {Absent, Num(0), Num(50)},
     max_shift_meters : {Absent, Num(0), Num(250)},
     filter_z_score : {Absent, Bool(TRUE)},
     z_score_threshold : {Absent, Rat(1, 2)},
     filter_z_score_filter_passed_only : {Absent, Bool(TRUE)}]

(***************************************************************************)
(* The filter chain on a loaded table: the stages in any order.            *)
(***************************************************************************)
Init ==
    \E res \in ResultSets(ChainRecords, MaxRows, BOOLEAN) :
        /\ results = res
        /\ df = coreg_dict_to_dataframe(res)
        /\ columns = {}
        /\ prev = FilterPassed(df)
        /\ last = NoStage
        /\ dict_data = dict_data_after(res, json_load(res))
        /\ OthersIdle

Stage(op, T, zt, po, newdf, newcols) ==
    /\ Len(df) > 0
    /\ df' = newdf
    /\ columns' = columns \cup newcols
    /\ prev' = FilterPassed(EnsureFilterPassed(df, columns))
    /\ last' = [op |-> op, T |-> T, zt |-> zt, po |-> po, settings |-> <<>>]
    /\ UNCHANGED <<results, dict_data, batch, info, store, cond, triage, prop>>

FilterOutNones ==
    Stage("filter_out_nones", 0, Rat(0, 1), FALSE,
          filter_out_nones(df, columns), {"filter_passed"})

FilterByShiftReliability ==
    \E T \in ReliabilityThresholds :
        Stage("filter_by_shift_reliability", T, Rat(0, 1), FALSE,
              filter_by_shift_reliability(df, columns, T), {"filter_passed"})

FilterWindowSize ==
    \E T \in WindowThresholds :
        Stage("filter_window_size", T, Rat(0, 1), FALSE,
              filter_window_size(df, columns, T), {"filter_passed"})

FilterByMaxShiftMeters ==
    \E T \in MaxShiftThresholds :
        Stage("filter_by_max_shift_meters", T, Rat(0, 1), FALSE,
              filter_by_max_shift_meters(df, columns, T), {"filter_passed"})

FilterZscores ==
    \E zt \in ZThresholds, po \in BOOLEAN :
        Stage("filter_zscores", 0, zt, po,
              filter_zscores(df, columns, zt, po),
              {"filter_passed", "z_score"})

Next ==
    \/ FilterOutNones
    \/ FilterByShiftReliability
    \/ FilterWindowSize
    \/ FilterByMaxShiftMeters
    \/ FilterZscores

Spec == Init /\ [][Next]_vars

(***************************************************************************)
(* The z-score stage on the table the null-similarity stage leaves.        *)
(***************************************************************************)
InitZ ==
    \E res \in ResultSets(ZRecords, MaxZRows, {FALSE})
                  \cup {ResultSet(FiveRowRecords, FALSE)} :
        /\ results = res
        /\ df = filter_out_nones(coreg_dict_to_dataframe(res), {})
        /\ columns = {"filter_passed"}
        /\ prev = [i \in 1..Len(res.records) |-> TRUE]
        /\ last = [NoStage EXCEPT !.op = "filter_out_nones"]
        /\ dict_data = dict_data_after(res, json_load(res))
        /\ OthersIdle

NextZ == FilterZscores

SpecZ == InitZ /\ [][NextZ]_vars

(***************************************************************************)
(* filter_coregistration on a persisted result file.                       *)
(***************************************************************************)
InitCoreg ==
    \E res \in ResultSets(CoregRecords, MaxRows, BOOLEAN) :
        /\ results = res
        /\ df = <<>>
        /\ columns = {}
        /\ prev = <<>>
        /\ last = [NoStage EXCEPT !.op = "start"]
        /\ dict_data = json_load(res)
        /\ OthersIdle

FilterCoregistration ==
    \E filter_settings \in FilterSettings :
        /\ last.op = "start"
        /\ df' = filter_coregistration(results, filter_settings)
        /\ columns' = {"filter_passed"} \cup
                      (IF Truthy(Get(filter_settings, "filter_z_score",
                                     Bool(FALSE)))
                       THEN {"z_score"} ELSE {})
        /\ prev' = [i \in 1..Len(results.records) |-> TRUE]
        /\ last' = [NoStage EXCEPT !.op = "filter_coregistration",
                                   !.settings = filter_settings]
        /\ dict_data' = dict_data_after(results, dict_data)
        /\ UNCHANGED <<results, batch, info, store, cond, triage, prop>>

NextCoreg == FilterCoregistration

SpecCoreg == InitCoreg /\ [][NextCoreg]_vars

(***************************************************************************)
(* make_coreg_info on the object the engine leaves behind.                 *)
(***************************************************************************)
Str(s) == [t |-> "str", v |-> s]

List(s) == [t |-> "list", v |-> s]

Tuple(s) == [t |-> "tuple", v |-> s]

Raised(e) == [t |-> "raised", v |-> e]

\* getattr(CR, name, default): the default only when the attribute is
\* missing; an attribute that is there and None comes back as None.
GetAttr(CR, name, default) ==
    IF CR[name].t = "absent" THEN default ELSE CR[name]

\* CR.coreg_info.get(group, {}).get(axis, default) if hasattr(CR,
\* 'coreg_info') else default
GetShift(CR, group, axis, default) ==
    IF CR.coreg_info.t = "absent" THEN default
    ELSE IF CR.coreg_info[group].t = "absent" THEN default
    ELSE IF CR.coreg_info[group][axis].t = "absent" THEN default
    ELSE CR.coreg_info[group][axis]

\* v == 'null' replaced by 0: only the string 'null' compares equal.
NullToZero(v) == IF v = Str("null") THEN Num(0) ELSE v

\* sequence[::-1]; None[::-1] raises TypeError.
Reversed(w) ==
    IF w.t \in {"list", "tuple"}
    THEN [w EXCEPT !.v = [i \in 1..Len(w.v) |-> w.v[Len(w.v) + 1 - i]]]
    ELSE Raised("TypeError")

change_ssim_reversed(original_ssim, coregistered_ssim) ==
    IF original_ssim.t # "none" /\ coregistered_ssim.t # "none"
    THEN IF original_ssim.t = "num" /\ coregistered_ssim.t = "num"
         THEN Num(original_ssim.v - coregistered_ssim.v)
         ELSE Raised("TypeError")
    ELSE Num(0)

\* coregistered_ssim - original_ssim if neither is None, else the default;
\* subtracting with a string operand raises TypeError.
change_ssim(original_ssim, coregistered_ssim) ==
    IF original_ssim.t # "none" /\ coregistered_ssim.t # "none"
    THEN IF original_ssim.t = "num" /\ coregistered_ssim.t = "num"
         THEN Num(coregistered_ssim.v - original_ssim.v)
         ELSE Raised("TypeError")
    ELSE Num(0)

defaults ==
    [t |-> "dict",
     original_ssim |-> Num(0),
     coregistered_ssim |-> Num(0),
     change_ssim |-> Num(0),
     shift_x |-> Num(0),
     shift_y |-> Num(0),
     shift_x_meters |-> Num(0),
     shift_y_meters |-> Num(0),
     shift_reliability |-> Bool(FALSE),
     window_size |-> List(<<0, 0>>),
     success |-> Bool(FALSE)]

\* The record built from the engine object CR, or the exception the call
\* ends with.  CR = None gives the defaults.
make_coreg_info(CR) ==
    IF CR.t = "none" THEN defaults
    ELSE
    LET original_ssim == GetAttr(CR, "ssim_orig", defaults.original_ssim)
        coregistered_ssim ==
            GetAttr(CR, "ssim_deshifted", defaults.coregistered_ssim)
        change == change_ssim(original_ssim, coregistered_ssim)
        shift_x == GetShift(CR, "corrected_shifts_px", "x", defaults.shift_x)
        shift_y == GetShift(CR, "corrected_shifts_px", "y", defaults.shift_y)
        shift_x_meters ==
            GetShift(CR, "corrected_shifts_map", "x", defaults.shift_x_meters)
        shift_y_meters ==
            GetShift(CR, "corrected_shifts_map", "y", defaults.shift_y_meters)
        shift_reliability ==
            GetAttr(CR, "shift_reliability", defaults.shift_reliability)
        window_size ==
            Reversed(GetAttr(CR, "fft_win_size_YX", defaults.window_size))
    IN IF change.t = "raised" THEN change
       ELSE IF window_size.t = "raised" THEN window_size
       ELSE [t |-> "dict",
             original_ssim |-> NullToZero(original_ssim),
             coregistered_ssim |-> NullToZero(coregistered_ssim),
             change_ssim |-> change,
             shift_x |-> NullToZero(shift_x),
             shift_y |-> NullToZero(shift_y),
             shift_x_meters |-> NullToZero(shift_x_meters),
             shift_y_meters |-> NullToZero(shift_y_meters),
             shift_reliability |-> NullToZero(shift_reliability),
             window_size |-> window_size,
             success |-> GetAttr(CR, "success", defaults.success)]

\* Engine objects: each attribute missing, None, the string 'null' or a
\* value.
SsimValues == {Absent, None, Str("null"), Num(1), Num(3)}

ShiftPairs(V) == {Absent} \cup [t : {"dict"}, x : V, y : V]

CoregInfos ==
    {Absent} \cup
    [t : {"dict"},
     corrected_shifts_px : ShiftPairs({None, Str("null"), Num(2)}),
     corrected_shifts_map : ShiftPairs({None, Num(20)})]

EngineObjects ==
    {None} \cup
    [t : {"CR"},
     ssim_orig : SsimValues,
     ssim_deshifted : SsimValues,
     coreg_info : CoregInfos,
     shift_reliability : {Absent, None, Str("null"), Num(50)},
     fft_win_size_YX : {Absent, None, Tuple(<<256, 128>>)},
     success : {Absent, Bool(FALSE), Bool(TRUE)}]

InitInfo ==
    \E CR \in EngineObjects :
        /\ info = [pc |-> "call", CR |-> CR, out |-> Absent]
        /\ FilterIdle
        /\ prop = Idle
        /\ batch = Idle
        /\ store = Idle
        /\ cond = Idle
        /\ triage = Idle

\* coregister_image once the engine has run: coreg_result =
\* make_coreg_info(CR).
MakeCoregInfo ==
    /\ info.pc = "call"
    /\ info' = [info EXCEPT !.pc = "done", !.out = make_coreg_info(info.CR)]
    /\ UNCHANGED <<filterVars, batch, store, cond, triage, prop>>

NextInfo == MakeCoregInfo

SpecInfo == InitInfo /\ [][NextInfo]_vars

(***************************************************************************)
(* coregister_files: one coregister_file call per target, in list order.   *)
(***************************************************************************)
MaxTargets == 3

\* An engine object of a run that worked.
GoodEngine ==
    [t |-> "CR",
     ssim_orig |-> Num(1),
     ssim_deshifted |-> Num(3),
     coreg_info |-> [t |-> "dict",
                     corrected_shifts_px |-> [t |-> "dict", x |-> Num(2),
                                              y |-> Num(2)],
                     corrected_shifts_map |-> [t |-> "dict", x |-> Num(20),
                                               y |-> Num(20)]],
     shift_reliability |-> Num(50),
     fft_win_size_YX |-> Tuple(<<256, 128>>),
     success |-> Bool(TRUE)]

\* ignore_errors = True: the engine flags the failure and leaves its
\* results None; the matching window may or may not have been fixed.
FlaggedEngine(window) ==
    [t |-> "CR",
     ssim_orig |-> None,
     ssim_deshifted |-> None,
     coreg_info |-> [t |-> "dict",
                     corrected_shifts_px |-> [t |-> "dict", x |-> None,
                                              y |-> None],
                     corrected_shifts_map |-> [t |-> "dict", x |-> None,
                                               y |-> None]],
     shift_reliability |-> None,
     fft_win_size_YX |-> window,
     success |-> Bool(FALSE)]

\* A target: whether rasterio can open and rewrite it, and what the engine
\* leaves behind for it.
Targets ==
    [readable : BOOLEAN,
     CR : {GoodEngine, FlaggedEngine(Tuple(<<256, 128>>)),
           FlaggedEngine(None)}]

\* coregister_file: conditioning (update_nodata_value re-raises every
\* failure as RuntimeError), then coregister_image; nothing is caught.
coregister_file(im_target) ==
    IF ~im_target.readable THEN Raised("RuntimeError")
    ELSE make_coreg_info(im_target.CR)

InitBatch ==
    \E n \in 0..MaxTargets :
        \E tif_files \in [1..n -> Targets] :
            /\ batch = [pc |-> "loop", tif_files |-> tif_files, i |-> 1,
                        results |-> <<>>, error |-> None]
            /\ FilterIdle
            /\ prop = Idle
            /\ info = Idle
            /\ store = Idle
            /\ cond = Idle
            /\ triage = Idle

\* One pass of the for loop: the result is appended, or the exception
\* leaves coregister_files.
CoregisterFile ==
    /\ batch.pc = "loop"
    /\ batch.i <= Len(batch.tif_files)
    /\ LET result == coregister_file(batch.tif_files[batch.i])
       IN batch' = IF result.t = "raised"
                   THEN [batch EXCEPT !.pc = "raised", !.error = result]
                   ELSE [batch EXCEPT !.i = @ + 1,
                                      !.results = Append(@, result)]
    /\ UNCHANGED <<filterVars, info, store, cond, triage, prop>>

\* return results
CoregisterFilesReturn ==
    /\ batch.pc = "loop"
    /\ batch.i > Len(batch.tif_files)
    /\ batch' = [batch EXCEPT !.pc = "returned"]
    /\ UNCHANGED <<filterVars, info, store, cond, triage, prop>>

NextBatch == CoregisterFile \/ CoregisterFilesReturn

SpecBatch == InitBatch /\ [][NextBatch]_vars

(***************************************************************************)
(* Saving the results: merge_list_of_dicts, save_coregistered_results,     *)
(* save_to_json, and json.load of the file written.                        *)
(***************************************************************************)
MaxGroupFiles == 2

\* A Python dict: its items in insertion order.
Dict(items) == [t |-> "dict", v |-> items]

Item(key, value) == [k |-> key, v |-> value]

Keys(d) == [i \in 1..Len(d.v) |-> d.v[i].k]

HasKey(d, key) == \E i \in 1..Len(d.v) : d.v[i].k = key

\* d[key] = value: a key already there keeps its position.
DictSet(d, key, value) ==
    IF HasKey(d, key)
    THEN Dict([i \in 1..Len(d.v) |->
                  IF d.v[i].k = key THEN Item(key, value) ELSE d.v[i]])
    ELSE Dict(Append(d.v, Item(key, value)))

RECURSIVE UpdateFrom(_, _, _)
\* d.update(other), the first n items of other
UpdateFrom(d, other, n) ==
    IF n = 0 THEN d
    ELSE DictSet(UpdateFrom(d, other, n - 1), other.v[n].k, other.v[n].v)

RECURSIVE MergeFirst(_, _)
MergeFirst(list_of_dicts, n) ==
    IF n = 0 THEN Dict(<<>>)
    ELSE UpdateFrom(MergeFirst(list_of_dicts, n - 1), list_of_dicts.v[n],
                    Len(list_of_dicts.v[n].v))

merge_list_of_dicts(list_of_dicts) ==
    MergeFirst(list_of_dicts, Len(list_of_dicts.v))

\* OrderedDict.move_to_end(key)
move_to_end(d, key) ==
    LET i == CHOOSE j \in 1..Len(d.v) : d.v[j].k = key
    IN Dict(Append(SelectSeq(d.v, LAMBDA it : it.k # key), d.v[i]))

\* json.dump with NumpyEncoder: dicts become objects, lists and tuples
\* both become arrays, None becomes null.
RECURSIVE JsonDump(_)
JsonDump_nullzero(x) ==
    IF x.t = "dict"
    THEN [t |-> "object",
          v |-> [i \in 1..Len(x.v) |-> Item(x.v[i].k, JsonDump(x.v[i].v))]]
    ELSE IF x.t \in {"list", "tuple"}
    THEN [t |-> "array", v |-> [i \in 1..Len(x.v) |-> JsonDump(x.v[i])]]
    ELSE IF x.t = "none" THEN Num(0)
    ELSE x

JsonDump(x) ==
    IF x.t = "dict"
    THEN [t |-> "object",
          v |-> [i \in 1..Len(x.v) |-> Item(x.v[i].k, JsonDump(x.v[i].v))]]
    ELSE IF x.t \in {"list", "tuple"}
    THEN [t |-> "array", v |-> [i \in 1..Len(x.v) |-> JsonDump(x.v[i])]]
    ELSE IF x.t = "none" THEN [t |-> "null"]
    ELSE x

\* json.load: objects become dicts in document order, arrays become
\* lists, null becomes None.
RECURSIVE JsonLoad(_)
JsonLoad(j) ==
    IF j.t = "object"
    THEN Dict([i \in 1..Len(j.v) |-> Item(j.v[i].k, JsonLoad(j.v[i].v))])
    ELSE IF j.t = "array"
    THEN List([i \in 1..Len(j.v) |-> JsonLoad(j.v[i])])
    ELSE IF j.t = "null" THEN None
    ELSE j

\* A record of make_coreg_info as a Python dict, with the CRS fields
\* coregister_file adds.
RecordDict(rec) ==
    Dict(<<Item("original_ssim", rec.original_ssim),
           Item("coregistered_ssim", rec.coregistered_ssim),
           Item("change_ssim", rec.change_ssim),
           Item("shift_x", rec.shift_x),
           Item("shift_y", rec.shift_y),
           Item("shift_x_meters", rec.shift_x_meters),
           Item("shift_y_meters", rec.shift_y_meters),
           Item("shift_reliability", rec.shift_reliability),
           Item("window_size",
                [rec.window_size EXCEPT
                    !.v = [i \in 1..Len(@) |-> Num(@[i])]]),
           Item("success", rec.success),
           Item("CRS", None),
           Item("CRS_converted", Bool(FALSE))>>)

\* The settings of the scripts; ws and nodata are tuples.
coregister_settings ==
    Dict(<<Item("ws", Tuple(<<Num(256), Num(256)>>)),
           Item("nodata", Tuple(<<Num(0), Num(0)>>)),
           Item("max_shift", Num(100)),
           Item("ignore_errors", Bool(TRUE)),
           Item("fmt_out", Str("GTiff"))>>)

\* dict.update changes the dict it is called on and returns None.
update_return(d, other) == None

\* The settings argument of the satellite loop:
\* coregister_settings.copy().update({'template_path': template_path})
LoopSettings ==
    update_return(coregister_settings,
                  Dict(<<Item("template_path", Str("template.tif"))>>))

\* The loop's argument; a caller may also pass the mapping itself.
SettingsArguments == {LoopSettings, coregister_settings}

Filenames == {"a.tif", "b.tif"}

SavedRecords ==
    {RecordDict(defaults), RecordDict(make_coreg_info(GoodEngine))}

\* What coregister_files returns: a list of one-file dicts.
FileResults ==
    UNION {{List(l) : l \in [1..n -> {Dict(<<Item(f, r)>>) :
                                        f \in Filenames,
                                        r \in SavedRecords}]} :
           n \in 0..MaxGroupFiles}

SatelliteNames == {"L8", "L9"}

\* save_coregistered_results: the results mapping after the call
\* (mutated in place) and the ordered copy that is written.
save_coregistered_results_unordered(res, satellite, settings) ==
    LET merged == DictSet(res, satellite, merge_list_of_dicts(
                              res.v[CHOOSE i \in 1..Len(res.v) :
                                        res.v[i].k = satellite].v))
        withSettings == DictSet(merged, "settings", settings)
    IN [results |-> withSettings,
        results_ordered |-> withSettings]

save_coregistered_results(res, satellite, settings) ==
    LET merged == DictSet(res, satellite, merge_list_of_dicts(
                              res.v[CHOOSE i \in 1..Len(res.v) :
                                        res.v[i].k = satellite].v))
        withSettings == DictSet(merged, "settings", settings)
    IN [results |-> withSettings,
        results_ordered |-> move_to_end(withSettings, "settings")]

InitSave ==
    \E settings \in SettingsArguments, grouped \in BOOLEAN :
        /\ ~grouped => settings = coregister_settings
        /\ store = [pc |-> IF grouped THEN "loop" ELSE "flat",
                    results |-> Dict(<<>>),
                    settings |-> settings,
                    processed |-> <<>>,
                    written |-> Absent,
                    file |-> Absent]
        /\ FilterIdle
        /\ prop = Idle
        /\ batch = Idle
        /\ info = Idle
        /\ cond = Idle
        /\ triage = Idle

\* One pass of the satellite loop: results[satellite] =
\* coregister_files(...), then save_coregistered_results.
SaveGroup ==
    \E satellite \in SatelliteNames, files \in FileResults :
        /\ store.pc \in {"loop", "saved"}
        /\ ~HasKey(store.results, satellite)
        /\ LET out == save_coregistered_results(
                          DictSet(store.results, satellite, files),
                          satellite, store.settings)
           IN store' = [store EXCEPT
                           !.pc = "saved",
                           !.results = out.results,
                           !.processed = Append(@, satellite),
                           !.written = out.results_ordered,
                           !.file = JsonDump(out.results_ordered)]
        /\ UNCHANGED <<filterVars, batch, info, cond, triage, prop>>

\* The flat scripts: the settings are appended to the list of results,
\* the list is merged and written with save_to_json.
SaveFlat ==
    \E files \in FileResults :
        /\ store.pc = "flat"
        /\ LET coreg_results ==
                   merge_list_of_dicts(
                       List(Append(files.v,
                                   Dict(<<Item("settings",
                                               store.settings)>>))))
           IN store' = [store EXCEPT
                           !.pc = "saved_flat",
                           !.results = coreg_results,
                           !.written = coreg_results,
                           !.file = JsonDump(coreg_results)]
        /\ UNCHANGED <<filterVars, batch, info, cond, triage, prop>>

NextSave == SaveGroup \/ SaveFlat

SpecSave == InitSave /\ [][NextSave]_vars

(***************************************************************************)
(* Raster conditioning: convert_to_new_crs and update_nodata_value, called *)
(* by coregister_file or directly in in-place mode (output_path None).     *)
(* Files are at four places: the original target, the reference, the      *)
(* workspace path modified_target_folder/basename(im_target), and the      *)
(* NamedTemporaryFile of the system temp directory.                        *)
(***************************************************************************)
File(data, crs, nodata) == [data |-> data, crs |-> crs, nodata |-> nodata]

NoFile == File("absent", "", "")

EmptyFile == File("empty", "", "")

PartialFile == File("partial", "", "")

CrsValues == {"EPSG:4326", "EPSG:32610"}

NodataValues == {"-inf", "none", "0"}

exists(f) == f # NoFile

\* What a conditioner writes for a source raster: convert_to_new_crs
\* reprojects to ref_crs, update_nodata_value sets nodata to 0.
Conditioned(fn, f, ref_crs) ==
    IF fn = "convert_to_new_crs" THEN [f EXCEPT !.crs = ref_crs]
    ELSE [f EXCEPT !.nodata = "0"]

\* Step 2 of coregister_file: the arguments of update_nodata_value.
NodataCall_inplace(fs, im_target) ==
    IF exists(fs.workspace)
    THEN [src |-> "workspace", out |-> "none"]
    ELSE [src |-> im_target, out |-> "none"]

NodataCall(fs, im_target) ==
    IF exists(fs.workspace)
    THEN [src |-> "workspace", out |-> "none"]
    ELSE [src |-> im_target, out |-> "workspace"]

\* The file a conditioner writes to: the temporary file in in-place mode.
OutputPlace == IF cond.out = "none" THEN "temp" ELSE cond.out

InitCond ==
    \E call \in {"coregister_file", "update_nodata_value",
                  "convert_to_new_crs"},
       tcrs \in CrsValues, rcrs \in CrsValues, nodata \in NodataValues,
       stale \in BOOLEAN :
        /\ call # "coregister_file" => ~stale
        /\ cond = [call |-> call,
                   fn |-> IF call = "coregister_file" THEN "none" ELSE call,
                   pc |-> IF call = "coregister_file" THEN "check_crs"
                          ELSE "begin",
                   src |-> "target",
                   out |-> "none",
                   im_target |-> "target",
                   ref_crs |-> rcrs,
                   before |-> File("original", tcrs, nodata),
                   wrote |-> {},
                   error |-> "",
                   fs |-> [target |-> File("original", tcrs, nodata),
                           reference |-> File("reference", rcrs, "0"),
                           workspace |-> IF stale
                                         THEN File("stale", rcrs, "0")
                                         ELSE NoFile,
                           temp |-> NoFile]]
        /\ FilterIdle
        /\ prop = Idle
        /\ batch = Idle
        /\ info = Idle
        /\ store = Idle
        /\ triage = Idle

CondFrame == UNCHANGED <<filterVars, batch, info, store, triage, prop>>

\* coregister_file step 1: a differing CRS starts convert_to_new_crs with
\* output_path = modified_target_path.
CheckCrs ==
    /\ cond.pc = "check_crs"
    /\ cond' = IF cond.fs.reference.crs # cond.fs[cond.im_target].crs
               THEN [cond EXCEPT !.fn = "convert_to_new_crs",
                                 !.src = cond.im_target,
                                 !.out = "workspace",
                                 !.pc = "begin"]
               ELSE [cond EXCEPT !.pc = "step2"]
    /\ CondFrame

\* coregister_file step 2: update_nodata_value on the workspace file in
\* place when it exists, else from im_target to the workspace.
Step2 ==
    /\ cond.pc = "step2"
    /\ LET c == NodataCall(cond.fs, cond.im_target)
       IN cond' = [cond EXCEPT !.fn = "update_nodata_value",
                               !.src = c.src,
                               !.out = c.out,
                               !.pc = "begin"]
    /\ CondFrame

\* Determine the output file: NamedTemporaryFile(delete=False) creates an
\* empty file in in-place mode.
Begin ==
    /\ cond.pc = "begin"
    /\ cond' = IF cond.out = "none"
               THEN [cond EXCEPT !.fs.temp = EmptyFile,
                                 !.wrote = @ \cup {"temp"},
                                 !.pc = "write"]
               ELSE [cond EXCEPT !.pc = "write"]
    /\ CondFrame

\* The conditioner returns output_file_path to its caller.
Returned(c) ==
    IF c.call # "coregister_file" THEN [c EXCEPT !.pc = "done"]
    ELSE IF c.fn = "convert_to_new_crs"
    THEN [c EXCEPT !.im_target = "workspace", !.pc = "step2"]
    ELSE [c EXCEPT !.im_target = IF c.out = "none" THEN c.src ELSE c.out,
                   !.pc = "done"]

\* except Exception as e: in in-place mode the temporary file is removed;
\* then RuntimeError (its message carries e) is raised and nothing up the
\* call chain catches it.
Handled(c, e) ==
    [(IF c.out = "none" THEN [c EXCEPT !.fs.temp = NoFile] ELSE c)
        EXCEPT !.pc = "raised", !.error = e]

\* The try block reads the source and writes the output file.
WriteOutput ==
    /\ cond.pc = "write"
    /\ LET c == [cond EXCEPT
                    !.fs[OutputPlace] =
                        Conditioned(cond.fn, cond.fs[cond.src], cond.ref_crs),
                    !.wrote = @ \cup {OutputPlace}]
       IN cond' = IF cond.out = "none" THEN [c EXCEPT !.pc = "remove"]
                  ELSE Returned(c)
    /\ CondFrame

\* Reading or writing fails: the output file was not opened, or is left
\* incomplete.
WriteFails ==
    \E opened \in BOOLEAN :
        /\ cond.pc = "write"
        /\ cond' = Handled(IF opened
                           THEN [cond EXCEPT
                                    !.fs[OutputPlace] = PartialFile,
                                    !.wrote = @ \cup {OutputPlace}]
                           ELSE cond,
                           IF opened THEN "write" ELSE "open")
        /\ CondFrame

\* os.remove(target_path)
RemoveTarget ==
    /\ cond.pc = "remove"
    /\ cond' = [cond EXCEPT !.fs[cond.src] = NoFile, !.pc = "move"]
    /\ CondFrame

RemoveFails ==
    /\ cond.pc = "remove"
    /\ cond' = Handled(cond, "remove")
    /\ CondFrame

\* move(output_file_path, target_path)
MoveIntoPlace ==
    /\ cond.pc = "move"
    /\ cond' = Returned([cond EXCEPT !.fs[cond.src] = cond.fs.temp,
                                     !.fs.temp = NoFile])
    /\ CondFrame

\* shutil.move fails: nothing arrived at target_path, or (copy across
\* file systems) an incomplete file did.
MoveFails ==
    \E left \in {NoFile, PartialFile} :
        /\ cond.pc = "move"
        /\ cond' = Handled([cond EXCEPT !.fs[cond.src] = left], "move")
        /\ CondFrame

NextCond ==
    \/ CheckCrs
    \/ Step2
    \/ Begin
    \/ WriteOutput
    \/ WriteFails
    \/ RemoveTarget
    \/ RemoveFails
    \/ MoveIntoPlace
    \/ MoveFails

SpecCond == InitCond /\ [][NextCond]_vars

(***************************************************************************)
(* Triage of the rows that failed the filters:                             *)
(* process_failed_coregistrations on the coregistered directory.           *)
(***************************************************************************)
MaxTriageFiles == 1

TriageGroups == {"L8", "L9"}

TriageFiles == 1..MaxTriageFiles

\* The directories the triage touches, per group and filename:
\*   coregistered: coregistered_dir/<group>/ms/<filename>
\*   quarantine:   coregistered_dir/failed_coregistration/<group>/<filename>
\*   unregistered: unregistered_dir/<group>/<subfolder_name>/<filename>
\* and whether coregistered_dir/failed_coregistration/<group> exists.
Trees(Contents) == [TriageGroups -> [TriageFiles -> Contents]]

FileSystems ==
    [coregistered : Trees({"absent", "coreg"}),
     quarantine : Trees({"absent", "old"}),
     failed_dir : [TriageGroups -> BOOLEAN],
     unregistered : Trees({"absent", "orig"})]

\* A file under failed_coregistration/<group> needs the directory.
WellFormed(fs) ==
    \A g \in TriageGroups :
        (\E f \in TriageFiles : fs.quarantine[g][f] # "absent")
            => fs.failed_dir[g]

\* df[~df['filter_passed']].groupby('satellite')['filename'].apply(list):
\* the failed filenames of each group; a group without failed rows is not
\* a key (the empty set here).
FailedCoregs == [TriageGroups -> SUBSET TriageFiles]

handle_failed_coregs_per_satellite_copy(fs, failed_coregs, copy_only, move_only) ==
    LET hit(g, f) == f \in failed_coregs[g]
                     /\ fs.coregistered[g][f] # "absent"
    IN [fs EXCEPT
          !.failed_dir = [g \in TriageGroups |->
                             @[g] \/ failed_coregs[g] # {}],
          !.quarantine = [g \in TriageGroups |-> [f \in TriageFiles |->
                             IF hit(g, f) /\ (copy_only \/ move_only)
                             THEN fs.coregistered[g][f] ELSE @[g][f]]]]

\* For every group with failed files: make failed_coregistration/<group>,
\* then copy (copy_only) or else move (move_only) each failed file that
\* exists under <group>/ms.
handle_failed_coregs_per_satellite(fs, failed_coregs, copy_only, move_only) ==
    LET hit(g, f) == f \in failed_coregs[g]
                     /\ fs.coregistered[g][f] # "absent"
    IN [fs EXCEPT
          !.failed_dir = [g \in TriageGroups |->
                             @[g] \/ failed_coregs[g] # {}],
          !.quarantine = [g \in TriageGroups |-> [f \in TriageFiles |->
                             IF hit(g, f) /\ (copy_only \/ move_only)
                             THEN fs.coregistered[g][f] ELSE @[g][f]]],
          !.coregistered = [g \in TriageGroups |-> [f \in TriageFiles |->
                               IF hit(g, f) /\ ~copy_only /\ move_only
                               THEN "absent" ELSE @[g][f]]]]

\* For every failed file whose original exists, copy the original over
\* the coregistered path.
copy_original_to_coregistered_per_satellite(fs, failed_coregs) ==
    [fs EXCEPT
        !.coregistered = [g \in TriageGroups |-> [f \in TriageFiles |->
                             IF f \in failed_coregs[g]
                                /\ fs.unregistered[g][f] # "absent"
                             THEN fs.unregistered[g][f] ELSE @[g][f]]]]

process_failed_coregistrations_backfillfirst(fs, failed_coregs, replace, copy_only, move_only) ==
    IF (copy_only /\ move_only) \/ (~copy_only /\ ~move_only)
    THEN [raised |-> TRUE, fs |-> fs]
    ELSE LET filled == IF replace
                       THEN copy_original_to_coregistered_per_satellite(
                                fs, failed_coregs)
                       ELSE fs
         IN [raised |-> FALSE,
             fs |-> handle_failed_coregs_per_satellite(
                        filled, failed_coregs, copy_only, move_only)]

process_failed_coregistrations_latecheck(fs, failed_coregs, replace, copy_only, move_only) ==
    LET handled == handle_failed_coregs_per_satellite(fs, failed_coregs,
                                                      copy_only, move_only)
    IN IF (copy_only /\ move_only) \/ (~copy_only /\ ~move_only)
       THEN [raised |-> TRUE, fs |-> handled]
       ELSE [raised |-> FALSE,
             fs |-> IF replace
                    THEN copy_original_to_coregistered_per_satellite(
                             handled, failed_coregs)
                    ELSE handled]

\* The file system after the call, and whether it raised ValueError.
process_failed_coregistrations(fs, failed_coregs, replace, copy_only, move_only) ==
    IF (copy_only /\ move_only) \/ (~copy_only /\ ~move_only)
    THEN [raised |-> TRUE, fs |-> fs]
    ELSE LET handled == handle_failed_coregs_per_satellite(
                            fs, failed_coregs, copy_only, move_only)
         IN [raised |-> FALSE,
             fs |-> IF replace
                    THEN copy_original_to_coregistered_per_satellite(
                             handled, failed_coregs)
                    ELSE handled]

InitTriage ==
    \E fs \in FileSystems, failed_coregs \in FailedCoregs,
       replace \in BOOLEAN, copy_only \in BOOLEAN, move_only \in BOOLEAN :
        /\ WellFormed(fs)
        /\ triage = [pc |-> "call",
                     fs |-> fs,
                     before |-> fs,
                     first |-> fs,
                     failed_coregs |-> failed_coregs,
                     replace |-> replace,
                     copy_only |-> copy_only,
                     move_only |-> move_only]
        /\ FilterIdle
        /\ prop = Idle
        /\ batch = Idle
        /\ info = Idle
        /\ store = Idle
        /\ cond = Idle

ProcessFailedCoregistrations ==
    /\ triage.pc = "call"
    /\ LET out == process_failed_coregistrations(
                      triage.fs, triage.failed_coregs, triage.replace,
                      triage.copy_only, triage.move_only)
       IN triage' = [triage EXCEPT
                        !.pc = IF out.raised THEN "raised" ELSE "done",
                        !.fs = out.fs,
                        !.first = out.fs]
    /\ UNCHANGED <<filterVars, batch, info, store, cond, prop>>

\* The script run once more on the same session: the same failed set and
\* flags, on the directories the first run left.
ProcessFailedCoregistrationsAgain ==
    /\ triage.pc = "done"
    /\ LET out == process_failed_coregistrations(
                      triage.fs, triage.failed_coregs, triage.replace,
                      triage.copy_only, triage.move_only)
       IN triage' = [triage EXCEPT !.pc = "done_again", !.fs = out.fs]
    /\ UNCHANGED <<filterVars, batch, info, store, cond, prop>>

NextTriage == ProcessFailedCoregistrations \/ ProcessFailedCoregistrationsAgain

SpecTriage == InitTriage /\ [][NextTriage]_vars

(***************************************************************************)
(* Shift propagation: apply_shifts_to_tiffs and copy_remaining_tiffs on    *)
(* the session directory and the coregistered directory.                   *)
(***************************************************************************)
MaxPropRows == 2

\* A filename is a sequence of pieces.  The letters m and s are pieces of
\* their own, so that every occurrence of 'ms' in a name is visible.
Dates == <<"2023-01-01", "2023-02-02", "2023-03-03", "2023-04-04">>

\* 2023-12-09-18-40-32_L9_ID_ice1_datetime06-06-24__09_02_37_ms.tif
MsName(i, id) == <<Dates[i], "_">> \o id \o <<"_", "m", "s", ".tif">>

\* The file of band folder_name that belongs to the ms file: the same name
\* with the band marker before the extension exchanged.
Sibling(file, folder_name) ==
    SubSeq(file, 1, Len(file) - 3) \o <<folder_name, ".tif">>

RECURSIVE replace(_, _, _)
\* str.replace(old, new): every occurrence of old, left to right.
replace(s, old, new) ==
    IF Len(s) < Len(old) THEN s
    ELSE IF SubSeq(s, 1, Len(old)) = old
         THEN new \o replace(SubSeq(s, Len(old) + 1, Len(s)), old, new)
         ELSE <<s[1]>> \o replace(Tail(s), old, new)

\* A raster file: its affine transform (a, b, c, d, e, f), band count, data
\* type, pixel values (by name, and whether they were resampled) and CRS.
Raster(transform, count, dtype, pixels, crs) ==
    [transform |-> transform, count |-> count, dtype |-> dtype,
     pixels |-> pixels, resampled |-> FALSE, crs |-> crs]

Transforms == {<<10, 0, 500, 0, -10, 900>>, <<0, 10, 500, 10, 0, 900>>}

\* Affine.translation(xoff, yoff)
translation(xoff, yoff) == <<1, 0, xoff, 0, 1, yoff>>

\* Affine.__mul__: the product of two affine matrices.
AffineMul(A, B) ==
    <<A[1] * B[1] + A[2] * B[4],
      A[1] * B[2] + A[2] * B[5],
      A[1] * B[3] + A[2] * B[6] + A[3],
      A[4] * B[1] + A[5] * B[4],
      A[4] * B[2] + A[5] * B[5],
      A[4] * B[3] + A[5] * B[6] + A[6]>>

apply_shift_to_tiff_swapped(src, shift) ==
    [src EXCEPT !.transform =
        AffineMul(src.transform, translation(shift[1], shift[2]))]

\* The file apply_shift_to_tiff writes for the raster src and the shift
\* (y, x): meta copied, the transform multiplied by the translation, the
\* bands written as read.
apply_shift_to_tiff(src, shift) ==
    [src EXCEPT !.transform =
        AffineMul(src.transform, translation(shift[2], shift[1]))]

\* The file change_to_crs writes: the bands resampled (bilinear) onto the
\* grid calculate_default_transform returns, here default_transform.
change_to_crs(new_crs, target, default_transform) ==
    [target EXCEPT !.transform = default_transform[target.transform],
                   !.crs = new_crs,
                   !.resampled = TRUE]

\* The directories, as paths from the session or coregistered directory.
AllDirs ==
    LET satellites == {"L8", "S2"}
        folders == {"mask", "pan", "swir", "meta"}
    IN {<<"session">>, <<"coregistered">>}
       \cup {<<root, s, f>> : root \in {"session", "coregistered"},
                              s \in satellites, f \in folders}
       \cup {<<"coregistered", s, f, "new_crs">> :
                 s \in satellites, f \in folders}

\* os.path.exists(os.path.join(dir, name))
path_exists(fs, dir, name) == name \in DOMAIN fs[dir]

\* The file system after writing content to dir/name.
WriteFile(fs, dir, name, content) ==
    [fs EXCEPT ![dir] = [m \in (DOMAIN fs[dir]) \cup {name} |->
                            IF m = name THEN content ELSE fs[dir][m]]]

\* df[df['filename'] == file][...].values[0]
RowOf(d, file) ==
    d[CHOOSE i \in 1..Len(d) :
          /\ d[i].filename = file
          /\ \A j \in 1..(i - 1) : d[j].filename # file]

RECURSIVE apply_shifts_to_satellite_files(_, _, _, _, _, _, _, _)
apply_shifts_to_satellite_files(fs, d, valid_files, src_dir, dst_dir, satname, folder_name, default_transform) ==
    IF valid_files = <<>> THEN fs
    ELSE
      LET file == Head(valid_files)
          shift_x == RowOf(d, file).shift_x
          shift_y == RowOf(d, file).shift_y
          new_crs == RowOf(d, file).CRS
          name == replace(file, <<"m", "s">>, <<folder_name>>)
          dst_folder == dst_dir \o <<satname, folder_name>>
          new_crs_dst_folder == dst_folder \o <<"new_crs">>
          found == path_exists(fs, src_dir, name)
          fs1 == IF found /\ Truthy(new_crs)
                 THEN WriteFile(fs, new_crs_dst_folder, name,
                                change_to_crs(new_crs.v, fs[src_dir][name],
                                              default_transform))
                 ELSE fs
          src == IF Truthy(new_crs) THEN fs1[new_crs_dst_folder][name]
                 ELSE fs[src_dir][name]
          fs2 == IF found
                 THEN WriteFile(fs1, dst_folder, name,
                                apply_shift_to_tiff(src, <<shift_y, shift_x>>))
                 ELSE fs1
      IN apply_shifts_to_satellite_files(fs2, d, Tail(valid_files), src_dir,
                                         dst_dir, satname, folder_name,
                                         default_transform)

RECURSIVE apply_shifts_to_files_planet(_, _, _, _, _)
apply_shifts_to_files_planet(fs, d, valid_files, src_dir, dst_dir) ==
    IF valid_files = <<>> THEN fs
    ELSE
      LET file == Head(valid_files)
          shift_x == RowOf(d, file).shift_x
          shift_y == RowOf(d, file).shift_y
          name == replace(file, <<"AnalyticMS_toar_clip">>, <<"udm2_clip">>)
          fs1 == IF path_exists(fs, src_dir, name)
                 THEN WriteFile(fs, dst_dir, name,
                                apply_shift_to_tiff(fs[src_dir][name],
                                                    <<shift_y, shift_x>>))
                 ELSE fs
      IN apply_shifts_to_files_planet(fs1, d, Tail(valid_files), src_dir,
                                      dst_dir)

RECURSIVE apply_shifts_for_satellites(_, _, _, _, _, _, _)
apply_shifts_for_satellites(fs, d, passed_coregs, coreg_dir, unregistered_dir, satellites, default_transform) ==
    IF satellites = <<>> THEN fs
    ELSE
      LET satname == Head(satellites)
          mask_dir == unregistered_dir \o <<satname, "mask">>
          fs1 == apply_shifts_to_satellite_files(
                     fs, d, passed_coregs, mask_dir, coreg_dir, satname,
                     "mask", default_transform)
          fs2 == IF satname = "S2"
                 THEN apply_shifts_to_satellite_files(
                          fs1, d, passed_coregs,
                          unregistered_dir \o <<satname, "swir">>, coreg_dir,
                          satname, "swir", default_transform)
                 ELSE IF satname \in {"L7", "L8", "L9"}
                 THEN apply_shifts_to_satellite_files(
                          fs1, d, passed_coregs,
                          unregistered_dir \o <<satname, "pan">>, coreg_dir,
                          satname, "pan", default_transform)
                 ELSE fs1
      IN apply_shifts_for_satellites(fs2, d, passed_coregs, coreg_dir,
                                     unregistered_dir, Tail(satellites),
                                     default_transform)

\* df['filename'], or df[df['filter_passed'] == True]['filename']
FilenamesOf(d, passed_only) ==
    LET rows == IF passed_only
                THEN SelectSeq(d, LAMBDA r : r.filter_passed)
                ELSE d
    IN [i \in 1..Len(rows) |-> rows[i].filename]

apply_shifts_to_tiffs_all(fs, d, coregistered_dir, session_dir, satellites, apply_shifts_filter_passed, default_transform) ==
    LET filenames == FilenamesOf(d, FALSE)
    IN IF satellites # <<>>
       THEN apply_shifts_for_satellites(fs, d, filenames, coregistered_dir,
                                        session_dir, satellites,
                                        default_transform)
       ELSE apply_shifts_to_files_planet(fs, d, filenames, coregistered_dir,
                                         session_dir)

apply_shifts_to_tiffs(fs, d, coregistered_dir, session_dir, satellites, apply_shifts_filter_passed, default_transform) ==
    LET filenames == FilenamesOf(d, apply_shifts_filter_passed)
    IN IF satellites # <<>>
       THEN apply_shifts_for_satellites(fs, d, filenames, coregistered_dir,
                                        session_dir, satellites,
                                        default_transform)
       ELSE apply_shifts_to_files_planet(fs, d, filenames, coregistered_dir,
                                         session_dir)

RECURSIVE copy_files(_, _, _, _, _, _)
copy_files(fs, filenames, folder_name, src_dir, dst_dir, satname) ==
    IF filenames = <<>> THEN fs
    ELSE
      LET file == Head(filenames)
          filename == replace(file, <<"m", "s">>, <<folder_name>>)
          fs1 == IF path_exists(fs, src_dir, filename)
                 THEN WriteFile(fs, dst_dir \o <<satname, folder_name>>,
                                filename, fs[src_dir][filename])
                 ELSE fs
      IN copy_files(fs1, Tail(filenames), folder_name, src_dir, dst_dir,
                    satname)

RECURSIVE copy_filenames_to_dir(_, _, _, _)
copy_filenames_to_dir(fs, filenames, src_dir, dst_dir) ==
    IF filenames = <<>> THEN fs
    ELSE
      LET file == Head(filenames)
          fs1 == IF path_exists(fs, src_dir, file)
                 THEN WriteFile(fs, dst_dir, file, fs[src_dir][file])
                 ELSE fs
      IN copy_filenames_to_dir(fs1, Tail(filenames), src_dir, dst_dir)

RECURSIVE copy_files_for_satellites(_, _, _, _, _)
copy_files_for_satellites(fs, filenames, coreg_dir, unregistered_dir, satellites) ==
    IF satellites = <<>> THEN fs
    ELSE
      LET satname == Head(satellites)
          mask_dir == unregistered_dir \o <<satname, "mask">>
          meta_dir == unregistered_dir \o <<satname, "meta">>
          fs1 == copy_files(fs, filenames, "mask", mask_dir, coreg_dir,
                            satname)
          meta_filenames ==
              [i \in 1..Len(filenames) |->
                  replace(filenames[i], <<"_", "m", "s", ".tif">>,
                          <<".txt">>)]
          fs2 == copy_filenames_to_dir(fs1, meta_filenames, meta_dir,
                                       coreg_dir \o <<satname, "meta">>)
          fs3 == IF satname = "S2"
                 THEN copy_files(
                          copy_files(fs2, filenames, "mask", mask_dir,
                                     coreg_dir, satname),
                          filenames, "swir",
                          unregistered_dir \o <<satname, "swir">>, coreg_dir,
                          satname)
                 ELSE IF satname \in {"L7", "L8", "L9"}
                 THEN copy_files(fs2, filenames, "pan",
                                 unregistered_dir \o <<satname, "pan">>,
                                 coreg_dir, satname)
                 ELSE fs2
      IN copy_files_for_satellites(fs3, filenames, coreg_dir,
                                   unregistered_dir, Tail(satellites))

RECURSIVE copy_meta_for_satellites(_, _, _, _, _)
\* A satellite without a meta directory is skipped; here it is a meta
\* directory without files.
copy_meta_for_satellites(fs, filenames, coreg_dir, unregistered_dir, satellites) ==
    IF satellites = <<>> THEN fs
    ELSE
      LET satname == Head(satellites)
          meta_dir == unregistered_dir \o <<satname, "meta">>
          meta_filenames ==
              [i \in 1..Len(filenames) |->
                  replace(filenames[i], <<"_", "m", "s", ".tif">>,
                          <<".txt">>)]
          fs1 == copy_filenames_to_dir(fs, meta_filenames, meta_dir,
                                       coreg_dir \o <<satname, "meta">>)
      IN copy_meta_for_satellites(fs1, filenames, coreg_dir,
                                  unregistered_dir, Tail(satellites))

copy_remaining_tiffs(fs, d, coregistered_dir, session_dir, satellites, replace_failed_files) ==
    IF replace_failed_files
    THEN copy_files_for_satellites(fs, FilenamesOf(d, FALSE),
                                   coregistered_dir, session_dir, satellites)
    ELSE copy_meta_for_satellites(fs, FilenamesOf(d, TRUE),
                                  coregistered_dir, session_dir, satellites)

\* Inputs: the rows of the filtered table and the files of the session.
\* A row is passed or rejected, recorded a CRS conversion or not, and has
\* all its siblings on disk or only the mask (udm2) one.
PropRowKinds ==
    [filter_passed : BOOLEAN, CRS_converted : BOOLEAN,
     siblings : {"all", "mask"}]

\* Row i of the table: a planet name (20200603_..._AnalyticMS_toar_clip.tif)
\* in a flat session, an ms name in a grouped one.
PropRow(i, kind, satellites, id) ==
    [filename |-> IF satellites = <<>>
                  THEN <<Dates[i], "_", "AnalyticMS_toar_clip", ".tif">>
                  ELSE MsName(i, id),
     filter_passed |-> kind.filter_passed,
     shift_x |-> IF i % 2 = 1 THEN 3 ELSE -1,
     shift_y |-> IF i % 2 = 1 THEN -2 ELSE 4,
     CRS |-> IF kind.CRS_converted THEN Str("EPSG:32610") ELSE None,
     CRS_converted |-> kind.CRS_converted]

\* The files of row i on disk.  The siblings of a grouped session are in the
\* session directory (row i belongs to the satellite at place i of the
\* list, cyclically); the udm2 files of a planet session are in udm_dir.
SessionEntries(i, kind, satellites, id, udm_dir) ==
    IF satellites = <<>>
    THEN {[dir |-> udm_dir,
           name |-> <<Dates[i], "_", "udm2_clip", ".tif">>,
           content |-> Raster(<<10, 0, 500, 0, -10, 900>>, 1, "uint8",
                              <<"udm2", Dates[i]>>, "EPSG:4326")]}
    ELSE
      LET s == satellites[((i - 1) % Len(satellites)) + 1]
          second == IF s = "S2" THEN "swir" ELSE "pan"
          file == MsName(i, id)
      IN {[dir |-> <<"session", s, "mask">>,
           name |-> Sibling(file, "mask"),
           content |-> Raster(<<10, 0, 500, 0, -10, 900>>, 1, "uint8",
                              <<"mask", Dates[i]>>, "EPSG:4326")]}
         \cup
         (IF kind.siblings = "all"
          THEN {[dir |-> <<"session", s, second>>,
                 name |-> Sibling(file, second),
                 content |-> Raster(<<0, 10, 500, 10, 0, 900>>, 3, "uint16",
                                    <<second, Dates[i]>>, "EPSG:4326")],
                [dir |-> <<"session", s, "meta">>,
                 name |-> SubSeq(file, 1, Len(file) - 4) \o <<".txt">>,
                 content |-> Raster(<<>>, 0, "txt", <<"meta", Dates[i]>>,
                                    "")]}
          ELSE {})

SessionOf(kinds, satellites, id, udm_dir) ==
    LET E == UNION {SessionEntries(i, kinds[i], satellites, id, udm_dir) :
                        i \in 1..Len(kinds)}
    IN [dir \in AllDirs |->
          LET D == {e \in E : e.dir = dir}
          IN [n \in {e.name : e \in D} |->
                 (CHOOSE e \in D : e.name = n).content]]

\* The table, the satellites of the session (none: a flat planet session),
\* the site identifier of the names ('ice1', or 'farms', which holds 'ms'),
\* the grid calculate_default_transform gives for each source grid, and
\* the files on disk.
InitProp ==
    \E n \in 1..MaxPropRows :
      \E kinds \in [1..n -> PropRowKinds],
         satellites \in {<<>>, <<"L8">>, <<"L8", "S2">>},
         id \in {<<"ice1">>, <<"far", "m", "s">>},
         default_transform \in [Transforms -> Transforms],
         udm_dir \in {<<"session">>, <<"coregistered">>} :
        /\ (satellites = <<>>) => (id = <<"ice1">>)
        /\ (satellites # <<>>) => (udm_dir = <<"session">>)
        /\ prop = [pc |-> "run",
                   df |-> [i \in 1..n |->
                              PropRow(i, kinds[i], satellites, id)],
                   satellites |-> satellites,
                   default_transform |-> default_transform,
                   fs |-> SessionOf(kinds, satellites, id, udm_dir),
                   before |-> SessionOf(kinds, satellites, id, udm_dir),
                   applied |-> "no",
                   copied |-> "no"]
        /\ FilterIdle
        /\ batch = Idle
        /\ info = Idle
        /\ store = Idle
        /\ cond = Idle
        /\ triage = Idle

\* geo_utils.apply_shifts_to_tiffs(df, coregistered_dir, session_dir,
\*                                 satellites, apply_shifts_filter_passed)
ApplyShiftsToTiffs ==
    \E apply_shifts_filter_passed \in BOOLEAN :
        /\ prop.pc = "run"
        /\ prop.applied = "no"
        /\ prop' = [prop EXCEPT
               !.fs = apply_shifts_to_tiffs(
                          prop.fs, prop.df, <<"coregistered">>, <<"session">>,
                          prop.satellites, apply_shifts_filter_passed,
                          prop.default_transform),
               !.applied = IF apply_shifts_filter_passed THEN "passed"
                           ELSE "all"]
        /\ UNCHANGED <<filterVars, batch, info, store, cond, triage>>

\* file_utils.copy_remaining_tiffs(df, coregistered_dir, session_dir,
\*                                 satellites, replace_failed_files)
CopyRemainingTiffs ==
    \E replace_failed_files \in BOOLEAN :
        /\ prop.pc = "run"
        /\ prop.applied = "no"
        /\ prop.copied = "no"
        /\ prop' = [prop EXCEPT
               !.fs = copy_remaining_tiffs(
                          prop.fs, prop.df, <<"coregistered">>, <<"session">>,
                          prop.satellites, replace_failed_files),
               !.copied = IF replace_failed_files THEN "all" ELSE "passed"]
        /\ UNCHANGED <<filterVars, batch, info, store, cond, triage>>

NextProp == ApplyShiftsToTiffs \/ CopyRemainingTiffs

SpecProp == InitProp /\ [][NextProp]_vars

(***************************************************************************)
(* Properties.                                                             *)
(***************************************************************************)
Rows == 1..Len(df)

StageRan(op) == last.op = op

\* C1: no stage, in any order and with any threshold, turns filter_passed
\* of a row from false to true: a row that was false before the last stage
\* is false after it.
C1_FilterPassedMonotone ==
    \A i \in Rows : (prev[i] = FALSE) => (df[i].filter_passed = FALSE)

\* A row rejected earlier goes through a stage whose own test accepts it.
C1_Witness ==
    /\ StageRan("filter_window_size")
    /\ \E i \in Rows :
          /\ prev[i] = FALSE
          /\ df[i].window_size[1] >= last.T
          /\ df[i].window_size[2] >= last.T
          /\ df[i].filter_passed = FALSE

\* C2: after the z-score stage with threshold t, a row whose combined
\* z-score is greater than t or undefined has filter_passed false, and a
\* row whose z-score is defined and at most t keeps its previous value.
C2_ZScoreStageRejectsOutliers ==
    StageRan("filter_zscores") =>
        \A i \in Rows :
            /\ (df[i].z_score.t # "fin" \/ ZGreater(df[i].z_score, last.zt))
                  => df[i].filter_passed = FALSE
            /\ (df[i].z_score.t = "fin" /\ ~ZGreater(df[i].z_score, last.zt))
                  => df[i].filter_passed = prev[i]

\* C3: on the table with shift_x = [0, 0, 0, 0, 100] and shift_y = 0, the
\* z-score stage with threshold 2 rejects the fifth row and leaves the
\* other four passing.
C3_FiveRowExample ==
    (/\ StageRan("filter_zscores")
     /\ results = ResultSet(FiveRowRecords, FALSE)
     /\ last.zt = Rat(2, 1)
     /\ prev = <<TRUE, TRUE, TRUE, TRUE, TRUE>>)
        => FilterPassed(df) = <<TRUE, TRUE, TRUE, TRUE, FALSE>>

\* The eligible population of the last z-score stage.
PopulationBefore ==
    {i \in Rows : /\ ~isna(df[i].shift_x)
                  /\ ~isna(df[i].shift_y)
                  /\ (last.po => prev[i])}

ZeroDeviation ==
    \/ \A i, j \in PopulationBefore : df[i].shift_x = df[j].shift_x
    \/ \A i, j \in PopulationBefore : df[i].shift_y = df[j].shift_y

\* C4: when the standard deviation of shift_x or of shift_y over the
\* eligible population is zero, every eligible row has an undefined z-score
\* and is rejected, for every threshold.
C4_ZeroDeviationRejects ==
    (StageRan("filter_zscores") /\ ZeroDeviation) =>
        \A i \in PopulationBefore :
            /\ df[i].z_score.t # "fin"
            /\ df[i].filter_passed = FALSE

Abs(n) == IF n < 0 THEN -n ELSE n

ExceedsAbs(x, T) == x.t = "num" /\ Abs(x.v) > T

\* C5: the max-shift stage with threshold T > 0 rejects every row whose
\* shift in meters is missing or exceeds T in absolute value on either axis.
C5_MaxShiftAbsolute ==
    (StageRan("filter_by_max_shift_meters") /\ last.T > 0) =>
        \A i \in Rows :
            (\/ isna(df[i].shift_x_meters)
             \/ isna(df[i].shift_y_meters)
             \/ ExceedsAbs(df[i].shift_x_meters, last.T)
             \/ ExceedsAbs(df[i].shift_y_meters, last.T))
                => df[i].filter_passed = FALSE

Configured(key) == last.settings[key].t # "absent"

\* C6: filter_coregistration rejects every row whose shift_x_meters or
\* shift_y_meters is strictly greater than the configured max_shift_meters.
C6_MaxShiftConfiguredRejects ==
    (StageRan("filter_coregistration") /\ Configured("max_shift_meters")) =>
        \A i \in Rows :
            LET T == last.settings["max_shift_meters"].v
                rec == results.records[i]
            IN (\/ (rec.shift_x_meters.t = "num" /\ rec.shift_x_meters.v > T)
                \/ (rec.shift_y_meters.t = "num" /\ rec.shift_y_meters.v > T))
                   => df[i].filter_passed = FALSE

\* C7: the window-size stage with threshold T rejects exactly the
\* previously passing rows whose width or height is below T; a row with
\* both at least T keeps its previous filter_passed.
C7_WindowSizeStage ==
    StageRan("filter_window_size") =>
        \A i \in Rows :
            df[i].filter_passed =
                (/\ prev[i]
                 /\ df[i].window_size[1] >= last.T
                 /\ df[i].window_size[2] >= last.T)

\* The window (40, 60) is rejected with threshold 50.
C7_Witness ==
    /\ StageRan("filter_window_size")
    /\ last.T = 50
    /\ \E i \in Rows :
          /\ prev[i]
          /\ df[i].window_size = <<40, 60>>
          /\ df[i].filter_passed = FALSE
    /\ \E i \in Rows :
          /\ prev[i]
          /\ df[i].window_size = <<60, 60>>
          /\ df[i].filter_passed

\* C8: the reliability stage with threshold T rejects every row whose
\* stored shift_reliability is null, the default false, or below T, and
\* leaves untouched every row whose shift_reliability is a number >= T.
C8_ReliabilityStage ==
    StageRan("filter_by_shift_reliability") =>
        \A i \in Rows :
            LET r == results.records[i].shift_reliability
            IN /\ (\/ r.t = "none"
                   \/ r = Bool(FALSE)
                   \/ (r.t = "num" /\ r.v < last.T))
                     => df[i].filter_passed = FALSE
               /\ (r.t = "num" /\ r.v >= last.T)
                     => df[i].filter_passed = prev[i]

\* C9: filter_coregistration rejects every row whose coregistered_ssim is
\* null in the persisted result, grouped or flat.
C9_NullSimilarityRejected ==
    StageRan("filter_coregistration") =>
        \A i \in Rows :
            results.records[i].coregistered_ssim.t = "none"
                => df[i].filter_passed = FALSE

\* The chain with each threshold stage applied exactly when its key is
\* present in the settings.
ChainByKeyPresence(res, filter_settings) ==
    LET cols == {"filter_passed"}
        d1 == filter_out_nones(coreg_dict_to_dataframe(res), {})
        d2 == IF filter_settings["shift_reliability"].t # "absent"
              THEN filter_by_shift_reliability(
                       d1, cols, filter_settings["shift_reliability"].v)
              ELSE d1
        d3 == IF filter_settings["window_size"].t # "absent"
              THEN filter_window_size(
                       d2, cols, filter_settings["window_size"].v)
              ELSE d2
        d4 == IF filter_settings["max_shift_meters"].t # "absent"
              THEN filter_by_max_shift_meters(
                       d3, cols, filter_settings["max_shift_meters"].v)
              ELSE d3
    IN IF Truthy(Get(filter_settings, "filter_z_score", Bool(FALSE)))
       THEN filter_zscores(
                d4, cols,
                Get(filter_settings, "z_score_threshold", DefaultZThreshold),
                Truthy(Get(filter_settings,
                           "filter_z_score_filter_passed_only", Bool(FALSE))))
       ELSE d4

\* C10: in filter_coregistration the reliability, window-size and max-shift
\* stages are applied exactly when their key is present in the settings,
\* for every threshold value including 0.
C10_StageAppliedIffKeyPresent ==
    StageRan("filter_coregistration") =>
        FilterPassed(df) =
            FilterPassed(ChainByKeyPresence(results, last.settings))

\* The same records in another row order: row i of the reordered result
\* set is record p[i], with its filename and group.
RowOrders(n) ==
    {p \in [1..n -> 1..n] : \A i, j \in 1..n : p[i] = p[j] => i = j}

Permute(res, p) ==
    [res EXCEPT !.records = [i \in 1..Len(res.records) |-> res.records[p[i]]]]

PassedOf(d, filename) ==
    d[CHOOSE i \in 1..Len(d) : d[i].filename = filename].filter_passed

EngineFailed(CR) ==
    /\ CR.t = "CR"
    /\ CR.success = Bool(FALSE)
    /\ CR.ssim_orig = None
    /\ CR.ssim_deshifted = None
    /\ CR.coreg_info.t = "dict"
    /\ CR.coreg_info.corrected_shifts_px = [t |-> "dict", x |-> None, y |-> None]
    /\ CR.coreg_info.corrected_shifts_map = [t |-> "dict", x |-> None, y |-> None]
    /\ CR.shift_reliability = None
    /\ CR.fft_win_size_YX = None

\* C13: for an engine object that reports failure with its similarity,
\* shift, reliability and window attributes null, make_coreg_info does not
\* raise and returns the record of defaults with success = false.
C13_FailedEngineGivesDefaults ==
    (info.pc = "done" /\ EngineFailed(info.CR)) => info.out = defaults

C12_FailureNeverAbortsBatch ==
    batch.pc \in {"returned", "raised"} =>
        /\ batch.pc = "returned"
        /\ Len(batch.results) = Len(batch.tif_files)

Saved == store.pc \in {"saved", "saved_flat"}

LastKey(d) == d.v[Len(d.v)].k

\* A Python value with every tuple replaced by the list of its elements.
RECURSIVE TuplesAsLists(_)
TuplesAsLists(x) ==
    IF x.t = "dict"
    THEN Dict([i \in 1..Len(x.v) |-> Item(x.v[i].k, TuplesAsLists(x.v[i].v))])
    ELSE IF x.t \in {"list", "tuple"}
    THEN List([i \in 1..Len(x.v) |-> TuplesAsLists(x.v[i])])
    ELSE x

RECURSIVE HoldsTuple(_)
HoldsTuple(x) ==
    \/ x.t = "tuple"
    \/ /\ x.t = "dict"
       /\ \E i \in 1..Len(x.v) : HoldsTuple(x.v[i].v)
    \/ /\ x.t = "list"
       /\ \E i \in 1..Len(x.v) : HoldsTuple(x.v[i])

C16_SettingsLastEveryGroupMerged ==
    store.pc = "saved" =>
        /\ LastKey(store.written) = "settings"
        /\ Len(store.written.v) = Len(store.processed) + 1
        /\ \A g \in 1..Len(store.processed) :
               \E i \in 1..(Len(store.written.v) - 1) :
                   /\ store.written.v[i].k = store.processed[g]
                   /\ store.written.v[i].v.t = "dict"
                   /\ \A j \in 1..Len(store.written.v[i].v.v) :
                          /\ store.written.v[i].v.v[j].k \in Filenames
                          /\ store.written.v[i].v.v[j].v \in SavedRecords

\* The second group saved: it was inserted when settings was already a
\* key of the results mapping, and it holds files.
C16_Witness ==
    /\ store.pc = "saved"
    /\ Len(store.processed) = 2
    /\ Keys(store.results) = <<store.processed[1], "settings",
                               store.processed[2]>>
    /\ Len(store.results.v[3].v.v) = 2

Complete(f) == f.data \in {"original", "stale", "reference"}

C18_InPlaceKeepsTarget ==
    cond.call \in {"update_nodata_value", "convert_to_new_crs"} =>
        cond.fs.target \in {cond.before,
                            Conditioned(cond.call, cond.before, cond.ref_crs)}

\* C19: with copy_only and move_only both true or both false,
\* process_failed_coregistrations raises and leaves every file and
\* directory as it was.
C19_BadFlagsRaiseUntouched ==
    (triage.pc \in {"done", "raised"}
     /\ triage.copy_only = triage.move_only) =>
        /\ triage.pc = "raised"
        /\ triage.fs = triage.before

\* Both flags set (or neither), with a failed file present in the
\* coregistered output and no failed_coregistration directory yet.
C19_Witness ==
    /\ triage.pc = "raised"
    /\ \E g \in TriageGroups, f \in TriageFiles :
           /\ f \in triage.failed_coregs[g]
           /\ triage.before.coregistered[g][f] = "coreg"
           /\ ~triage.before.failed_dir[g]

\* C20: after the call with move_only = true, copy_only = false and
\* replace = false, every failed file that was in the coregistered output
\* is gone from its coregistered path and is at
\* failed_coregistration/<group>/<filename>; files of passed rows stay.
C20_FailedFilesMoved ==
    (triage.pc = "done" /\ triage.move_only /\ ~triage.replace) =>
        \A g \in TriageGroups, f \in TriageFiles :
            IF f \in triage.failed_coregs[g]
            THEN triage.before.coregistered[g][f] # "absent" =>
                    /\ triage.fs.coregistered[g][f] = "absent"
                    /\ triage.fs.quarantine[g][f] =
                           triage.before.coregistered[g][f]
            ELSE /\ triage.fs.coregistered[g][f] =
                        triage.before.coregistered[g][f]
                 /\ triage.fs.quarantine[g][f] =
                        triage.before.quarantine[g][f]

\* One group's failed file was moved while the other group's passed file
\* stayed in the coregistered output.
C20_Witness ==
    /\ triage.pc = "done"
    /\ triage.move_only
    /\ ~triage.replace
    /\ \E g, h \in TriageGroups, f \in TriageFiles :
           /\ g # h
           /\ f \in triage.failed_coregs[g]
           /\ triage.before.coregistered[g][f] = "coreg"
           /\ triage.fs.quarantine[g][f] = "coreg"
           /\ f \notin triage.failed_coregs[h]
           /\ triage.fs.coregistered[h][f] = "coreg"

C30_TriageIdempotent ==
    triage.pc = "done_again" => triage.fs = triage.first

\* C25: building the table from a result set and running the filter
\* stages leaves the result set as it was read: the settings key is still
\* there and every record has exactly the fields it had.
C25_ResultSetUnchanged ==
    StageRan("filter_coregistration") => dict_data = json_load(results)

\* The run configuration: the coregistration settings with the template
\* path.
RunConfiguration ==
    DictSet(coregister_settings, "template_path", Str("template.tif"))

SettingsEntry(d) ==
    d.v[CHOOSE i \in 1..Len(d.v) : d.v[i].k = "settings"].v

\* C26: every result set the coregister_coastseg loop persists has the
\* run configuration (coregistration settings and template path) under
\* settings.
C26_SettingsHoldRunConfiguration ==
    (store.pc = "saved" /\ store.settings = LoopSettings) =>
        SettingsEntry(JsonLoad(store.file)) = TuplesAsLists(RunConfiguration)

\* The four non-statistical stages, numbered, with thresholds Tr
\* (reliability), Tw (window) and Tm (maximum shift).
NonStatStage(k, d, cols, Tr, Tw, Tm) ==
    CASE k = 1 -> filter_out_nones(d, cols)
      [] k = 2 -> filter_by_shift_reliability(d, cols, Tr)
      [] k = 3 -> filter_window_size(d, cols, Tw)
      [] k = 4 -> filter_by_max_shift_meters(d, cols, Tm)

RECURSIVE ApplyFirst(_, _, _, _, _, _, _)
\* The first n stages of the order p applied to the table d.
ApplyFirst(p, n, d, cols, Tr, Tw, Tm) ==
    IF n = 0 THEN d
    ELSE NonStatStage(p[n],
                      ApplyFirst(p, n - 1, d, cols, Tr, Tw, Tm),
                      IF n = 1 THEN cols ELSE cols \cup {"filter_passed"},
                      Tr, Tw, Tm)

\* Each stage's own reason to reject a row.
RejectedByAny(row, Tr, Tw, Tm) ==
    \/ IsNoneObject(row.coregistered_ssim)
    \/ IsNoneObject(row.shift_reliability)
    \/ PyLess(row.shift_reliability, Tr)
    \/ row.window_size[1] < Tw
    \/ row.window_size[2] < Tw
    \/ SeriesGt(row.shift_x_meters, Tm)
    \/ isna(row.shift_x_meters)
    \/ SeriesGt(row.shift_y_meters, Tm)
    \/ isna(row.shift_y_meters)

\* C29: the four non-statistical stages applied in any order give the
\* same filter_passed column: the initial value of each row and not
\* rejected by any stage's own per-row predicate.
C29_NonStatisticalStagesCommute ==
    \A Tr \in ReliabilityThresholds, Tw \in WindowThresholds,
       Tm \in MaxShiftThresholds :
        \A p \in RowOrders(4) :
            LET out == ApplyFirst(p, 4, df, columns, Tr, Tw, Tm)
                before == EnsureFilterPassed(df, columns)
            IN \A i \in Rows :
                  out[i].filter_passed =
                      (before[i].filter_passed
                       /\ ~RejectedByAny(df[i], Tr, Tw, Tm))

\* A table after one stage, with a row that stage rejected and another
\* row, still passed, that only a different stage rejects.
C29_Witness ==
    /\ StageRan("filter_window_size")
    /\ \E i, j \in Rows :
           /\ i # j
           /\ ~df[i].filter_passed
           /\ df[i].window_size[1] < last.T
           /\ df[j].filter_passed
           /\ IsNoneObject(df[j].coregistered_ssim)
           /\ df[j].window_size[1] >= last.T
           /\ df[j].window_size[2] >= last.T

\* The table the last stage received: the stages change filter_passed and
\* z_score only.
TableBefore == [i \in Rows |-> [df[i] EXCEPT !.filter_passed = prev[i]]]

HasShifts(row) == ~isna(row.shift_x) /\ ~isna(row.shift_y)

AlternativeShifts == {None, Num(0), Num(3), Num(100)}

WithShifts(d, i, sx, sy) ==
    [d EXCEPT ![i] = [d[i] EXCEPT !.shift_x = sx, !.shift_y = sy]]

AllPassed(d) == [i \in 1..Len(d) |-> [d[i] EXCEPT !.filter_passed = TRUE]]

\* C27: with filter_passed_only the z-score stage scores only rows that
\* are still passed and have both shifts, every other row gets no
\* z-score, and replacing the shifts of an already rejected row changes no
\* other row's z-score or decision; without it the population is every row
\* with both shifts, the scores being those of the same table with every
\* row passed.
C27_ZScorePopulation ==
    StageRan("filter_zscores") =>
        /\ last.po =>
              /\ \A i \in Rows :
                     ~(prev[i] /\ HasShifts(df[i])) => df[i].z_score.t = "nan"
              /\ \A i \in Rows : ~prev[i] =>
                     \A sx, sy \in AlternativeShifts :
                         LET alt == filter_zscores(
                                        WithShifts(TableBefore, i, sx, sy),
                                        columns, last.zt, TRUE)
                         IN \A j \in Rows \ {i} :
                                /\ alt[j].z_score = df[j].z_score
                                /\ alt[j].filter_passed = df[j].filter_passed
        /\ ~last.po =>
              /\ \A i \in Rows : ~HasShifts(df[i]) => df[i].z_score.t = "nan"
              /\ LET all == calculate_zscore(AllPassed(TableBefore), TRUE)
                 IN \A j \in Rows : df[j].z_score = all[j].z_score

\* The stage ran on passed rows only, on a table with a rejected row that
\* has both shifts beside passed rows with finite z-scores.
C27_Witness ==
    /\ StageRan("filter_zscores")
    /\ last.po
    /\ \E i, j \in Rows :
           /\ ~prev[i]
           /\ HasShifts(df[i])
           /\ prev[j]
           /\ df[j].z_score.t = "fin"
           /\ df[j].z_score.num # 0

PropRows == 1..Len(prop.df)

\* A file the propagation wrote: new, or different from what was there.
Written(dir, n) ==
    /\ n \in DOMAIN prop.fs[dir]
    /\ (n \in DOMAIN prop.before[dir] => prop.fs[dir][n] # prop.before[dir][n])

\* The row a file belongs to: the one with the same acquisition date.
Owner(n) == prop.df[CHOOSE i \in PropRows : prop.df[i].filename[1] = n[1]]

IsMetaDir(dir) == Len(dir) = 3 /\ dir[3] = "meta"

IsNewCrsDir(dir) == Len(dir) = 4

\* A shifted sibling written by apply_shifts_to_tiffs.
Shifted(dir, n) ==
    /\ prop.applied # "no"
    /\ prop.copied # "all"
    /\ Written(dir, n)
    /\ ~IsMetaDir(dir)
    /\ ~IsNewCrsDir(dir)

\* The sibling on disk that a shifted file was made from.
SourceOf(dir, n) ==
    IF Len(dir) = 1 THEN prop.before[<<"coregistered">>][n]
    ELSE prop.before[<<"session", dir[2], dir[3]>>][n]

\* C22: in the default modes only passed rows get a shifted sibling or a
\* copied metadata file; in propagate-all mode apply_shifts_to_tiffs does
\* for every row what it does for a passed row, and copy_remaining_tiffs
\* copies the metadata file of every row.
C22_OnlyPassedRowsPropagated ==
    /\ (prop.pc = "run" /\ prop.applied # "all" /\ prop.copied # "all") =>
           \A dir \in AllDirs : \A n \in DOMAIN prop.fs[dir] :
               Written(dir, n) => Owner(n).filter_passed
    /\ (prop.pc = "run" /\ prop.applied = "all" /\ prop.copied = "no") =>
           prop.fs = apply_shifts_to_tiffs(
                         prop.before, AllPassed(prop.df), <<"coregistered">>,
                         <<"session">>, prop.satellites, TRUE,
                         prop.default_transform)
    /\ (prop.pc = "run" /\ prop.applied = "no" /\ prop.copied # "no") =>
           \A i \in 1..Len(prop.satellites) :
               LET s == prop.satellites[i]
                   src == prop.before[<<"session", s, "meta">>]
                   dst == prop.fs[<<"coregistered", s, "meta">>]
               IN \A n \in DOMAIN src :
                      (prop.copied = "all" \/ Owner(n).filter_passed) =>
                          (n \in DOMAIN dst /\ dst[n] = src[n])

\* Both calls ran in their default modes on a table with a rejected row
\* that has files on disk and a passed row whose sibling and metadata file
\* were written.
C22_Witness ==
    /\ prop.pc = "run"
    /\ prop.applied = "passed"
    /\ prop.copied = "passed"
    /\ \E i \in PropRows :
           /\ ~prop.df[i].filter_passed
           /\ \E dir \in AllDirs : \E n \in DOMAIN prop.before[dir] :
                  n[1] = prop.df[i].filename[1] /\ IsMetaDir(dir)
    /\ \E dir \in AllDirs : \E n \in DOMAIN prop.fs[dir] : Shifted(dir, n)
    /\ \E dir \in AllDirs : \E n \in DOMAIN prop.fs[dir] :
           Written(dir, n) /\ IsMetaDir(dir)

\* C23: every shifted sibling of a row that recorded a CRS conversion was
\* reprojected into the recorded CRS before the shift, in the grouped and
\* in the flat path.
C23_ReprojectedBeforeShift ==
    prop.pc = "run" =>
        \A dir \in AllDirs : \A n \in DOMAIN prop.fs[dir] :
            (Shifted(dir, n) /\ Owner(n).CRS_converted) =>
                /\ prop.fs[dir][n].resampled
                /\ prop.fs[dir][n].crs = Owner(n).CRS.v

\* C24: a shifted sibling has the transform of the sibling on disk
\* multiplied by the translation (shift_x, shift_y), and its band count,
\* data type and pixel values.
C24_ShiftOnSiblingTransform ==
    prop.pc = "run" =>
        \A dir \in AllDirs : \A n \in DOMAIN prop.fs[dir] :
            Shifted(dir, n) =>
                prop.fs[dir][n] =
                    [SourceOf(dir, n) EXCEPT !.transform =
                        AffineMul(@, translation(Owner(n).shift_x,
                                                 Owner(n).shift_y))]

\* The raster handed to the shift: the sibling on disk or, for a row of a
\* grouped session that recorded a CRS, its reprojection into that CRS.
HandedToShift(dir, n) ==
    IF Len(dir) = 3 /\ Truthy(Owner(n).CRS)
    THEN [SourceOf(dir, n) EXCEPT
             !.transform = prop.default_transform[@],
             !.crs = Owner(n).CRS.v,
             !.resampled = TRUE]
    ELSE SourceOf(dir, n)

\* C24 (amended): a shifted sibling has the transform of the raster
\* handed to the shift multiplied by the translation (shift_x, shift_y),
\* and that raster's band count, data type and pixel values.
C24_ShiftOnHandedTransform ==
    prop.pc = "run" =>
        \A dir \in AllDirs : \A n \in DOMAIN prop.fs[dir] :
            Shifted(dir, n) =>
                prop.fs[dir][n] =
                    [HandedToShift(dir, n) EXCEPT !.transform =
                        AffineMul(@, translation(Owner(n).shift_x,
                                                 Owner(n).shift_y))]

\* A shifted sibling of a row with a recorded CRS, reprojected onto another
\* grid, beside a shifted sibling of a row without.
C24_Witness ==
    /\ prop.pc = "run"
    /\ \E dir \in AllDirs : \E n \in DOMAIN prop.fs[dir] :
           /\ Shifted(dir, n)
           /\ Len(dir) = 3
           /\ Owner(n).CRS_converted
           /\ HandedToShift(dir, n).transform # SourceOf(dir, n).transform
    /\ \E dir \in AllDirs : \E n \in DOMAIN prop.fs[dir] :
           Shifted(dir, n) /\ ~Owner(n).CRS_converted

\* C28: for every ms filename of the table and every band folder, the
\* name the substitution gives is the ms name with only the band marker
\* before the extension exchanged.
C28_SiblingNameKeepsOtherParts ==
    (prop.pc = "run" /\ prop.satellites # <<>> /\ prop.applied # "no") =>
        \A i \in PropRows : \A folder_name \in {"mask", "pan", "swir"} :
            replace(prop.df[i].filename, <<"m", "s">>, <<folder_name>>)
                = Sibling(prop.df[i].filename, folder_name)

====
